---- MODULE Spec2Model ----
(***************************************************************************)
(* Model of the blog post service of src/app.py: the startup sequence      *)
(* (DATABASE_URL check, init_db, app.run) and the four /api/posts handlers *)
(* (get_posts, create_post, update_post, delete_post) running on           *)
(* concurrent workers against one PostgreSQL posts table.                  *)
(*                                                                         *)
(* Each handler is cut at its storage round trips: the request arrives,    *)
(* validates and connects (one step), the statement executes and its       *)
(* result is fetched (one step), the transaction commits, the connection   *)
(* closes and the response is built (one step), and the response leaves    *)
(* the worker (one step).  Storage errors may strike at connect, execute   *)
(* and commit.                                                             *)
(***************************************************************************)
EXTENDS Integers, Sequences, FiniteSets

\* ------------------------------------------------------------------ bounds
MaxPosts   == 2      \* ids the sequence posts_id_seq may hand out
MaxNow     == 5      \* last clock reading of a sequential run; the clock ticks once per request
MaxConcNow == 3      \* last clock reading of a concurrent run

\* -------------------------------------------------------- program constants
TitleMax == 200      \* len(title) > 200, VARCHAR(200)

Workers == {"w1", "w2"}        \* two server workers, each serving one request at a time
Ids     == 1..(MaxPosts + 1)   \* ids a request may name: every id that can exist, and one that cannot

\* ------------------------------------------------------------------ strings
\* A string is `lead` whitespace characters, then `n` copies of the
\* non-whitespace character `ch`, then `trail` whitespace characters.
Str(lead, ch, n, trail) ==
    [kind |-> "str", lead |-> lead, ch |-> ch, n |-> n, trail |-> trail]

Empty == Str(0, "", 0, 0)

\* len(s)
Len_(s) == s.lead + s.n + s.trail

\* str.strip(): leading and trailing whitespace removed
Strip(s) == IF s.n = 0 THEN Empty ELSE Str(0, s.ch, s.n, 0)

\* values a JSON object may hold under "title" / "content"
Missing   == [Empty EXCEPT !.kind = "missing"]     \* the key is absent
NotString == [Empty EXCEPT !.kind = "notstring"]   \* a number, null, list, ...: anything without .strip()

IsString(v) == v.kind = "str"

TitleInputs ==
    { Missing, NotString,
      Str(2, "", 0, 0),                  \* whitespace only
      Str(1, "a", 1, 1),                 \* " a "
      Str(1, "b", TitleMax, 0),          \* 201 characters raw, 200 trimmed
      Str(0, "c", TitleMax + 1, 0) }     \* 201 characters trimmed

ContentInputs ==
    { Missing,
      Str(0, "", 0, 1),                  \* whitespace only
      Str(0, "x", 1, 1),
      Str(1, "y", 3, 0) }

\* ------------------------------------------------------------ request bodies
\* What the client sent.  "malformed": Content-Type application/json with
\* bytes that are no JSON document (the empty body included).  "absent": no
\* JSON content type.  "falsy": a document that parses to a falsy value other
\* than {} (null, 0, false, "", []).  "nondict": a truthy value that is no
\* object ([1], "x", 7).  "dict": an object; `other` says it has keys besides
\* title and content.
Dict(t, c, other) == [kind |-> "dict", title |-> t, content |-> c, other |-> other]
Plain(kind)       == [kind |-> kind, title |-> Missing, content |-> Missing, other |-> FALSE]

Bodies ==
    { Plain("malformed"), Plain("absent"), Plain("falsy"), Plain("nondict") }
    \cup { Dict(Missing, Missing, o) : o \in BOOLEAN }
    \cup { Dict(t, c, FALSE) : t \in TitleInputs, c \in ContentInputs }

\* the bodies that pass both handlers' validation and fit the table
ValidBodies ==
    { b \in Bodies : b.kind = "dict" /\ IsString(b.title) /\ IsString(b.content)
                       /\ Strip(b.title).n \in 1..TitleMax /\ Strip(b.content).n > 0 }

\* two valid bodies that differ in title and in content
ConcBodies ==
    { Dict(Str(1, "a", 1, 1), Str(0, "x", 1, 1), FALSE),
      Dict(Str(1, "b", TitleMax, 0), Str(1, "y", 3, 0), FALSE) }

\* request.get_json(): the outcomes the call can have.  A body that does not
\* parse raises BadRequest; a request without a JSON content type yields None
\* or raises UnsupportedMediaType, depending on the Flask release.
Raised == Plain("raised")
None   == Plain("none")
GetJson(body) ==
    CASE body.kind = "malformed" -> { Raised }
      [] body.kind = "absent"    -> { None, Raised }
      [] OTHER                   -> { body }

\* `not data`
Falsy(data) ==
    \/ data.kind \in {"none", "falsy"}
    \/ data.kind = "dict" /\ data.title = Missing /\ data.content = Missing /\ ~data.other

\* data.get(key, "")
GetField(v) == IF v = Missing THEN Empty ELSE v

\* ---------------------------------------------------------------- responses
NoRow == [id |-> 0, title |-> Empty, content |-> Empty, created_at |-> 0]
Resp(status, msg, rows) == [status |-> status, msg |-> msg, rows |-> rows]
NoResp == Resp(0, "", <<>>)
ErrorResp(status, msg) == Resp(status, msg, <<>>)
Exception == ErrorResp(500, "exception")   \* {"error": str(e)}, 500

Proceed == Resp(-1, "proceed", <<>>)        \* validation passed: go on to storage

\* create_post, from get_json() to the length check
CreateValidate(data) ==
    IF data = Raised THEN Exception
    ELSE IF Falsy(data) THEN ErrorResp(400, "No data provided")
    ELSE IF data.kind # "dict" THEN Exception
    ELSE IF ~IsString(GetField(data.title)) \/ ~IsString(GetField(data.content)) THEN Exception
    ELSE IF Strip(GetField(data.title)).n = 0 \/ Strip(GetField(data.content)).n = 0
         THEN ErrorResp(400, "Title and content are required")
    ELSE IF Len_(Strip(GetField(data.title))) > TitleMax
         THEN ErrorResp(400, "Title must be <= 200 characters")
    ELSE Proceed

\* update_post, from get_json() to the required-fields check (no length check)
UpdateValidate(data) ==
    IF data = Raised THEN Exception
    ELSE IF Falsy(data) THEN ErrorResp(400, "No data provided")
    ELSE IF data.kind # "dict" THEN Exception
    ELSE IF ~IsString(GetField(data.title)) \/ ~IsString(GetField(data.content)) THEN Exception
    ELSE IF Strip(GetField(data.title)).n = 0 \/ Strip(GetField(data.content)).n = 0
         THEN ErrorResp(400, "Title and content are required")
    ELSE Proceed

\* -------------------------------------------------------------------- state
VARIABLES
    phase,        \* "import", "main", "serving" or "aborted": how far startup got
    databaseUrl,  \* whether the environment sets DATABASE_URL
    tableExists,  \* whether the posts table exists in the database
    printed,      \* what init_db printed: "", "initialized" or "failed"
    posts,        \* the committed rows of the posts table
    idSeq,        \* the next value of the SERIAL sequence behind posts.id
    now,          \* the database clock behind CURRENT_TIMESTAMP
    pc,           \* per worker: "idle", "execute", "commit" or "done"
    req,          \* per worker: the request being served
    conn,         \* per worker: "none", "open" or "closed": the request's connection
    txn,          \* per worker: the uncommitted effect of the executed statement
    resp,         \* per worker: the response, once built
    createdLog,   \* history: one entry per 201 response, in order
    live,         \* history: what the 201/200 responses promise is stored, per id
    gone          \* history: the ids a delete answered 200 for, and when

startup == <<phase, databaseUrl, tableExists, printed>>
storage == <<posts, idSeq>>
workers == <<pc, req, conn, txn, resp>>
history == <<createdLog, live, gone>>
vars == <<phase, databaseUrl, tableExists, printed, posts, idSeq, now,
          pc, req, conn, txn, resp, createdLog, live, gone>>

Row(id, title, content, created_at) ==
    [id |-> id, title |-> title, content |-> content, created_at |-> created_at]

Request(op, id, body, at) == [op |-> op, id |-> id, body |-> body, at |-> at]
NoReq == Request("none", 0, Plain("absent"), 0)

Txn(op, row) == [op |-> op, row |-> row]
NoTxn == Txn("none", NoRow)

\* the title as submitted, .strip() forgotten
RawTitle(w) == GetField(req[w].body.title)

\* the trimmed fields the handler holds in its locals `title` and `content`
Title(w)   == Strip(GetField(req[w].body.title))
Content(w) == Strip(GetField(req[w].body.content))

\* what a response promises about a stored row
Promise(id, title, content) == [id |-> id, title |-> title, content |-> content]

\* A row left behind by an earlier run of the service.
OldRow == Row(1, Str(0, "a", 1, 0), Str(0, "x", 1, 0), 0)

Init ==
    /\ phase = "import"
    /\ databaseUrl \in BOOLEAN
    /\ tableExists \in BOOLEAN
    /\ printed = ""
    /\ posts \in (IF tableExists THEN { {}, {OldRow} } ELSE { {} })
    /\ idSeq = IF posts = {} THEN 1 ELSE 2
    /\ now = 1
    /\ pc = [w \in Workers |-> "idle"]
    /\ req = [w \in Workers |-> NoReq]
    /\ conn = [w \in Workers |-> "none"]
    /\ txn = [w \in Workers |-> NoTxn]
    /\ resp = [w \in Workers |-> NoResp]
    /\ createdLog = IF posts = {} THEN <<>> ELSE << [id |-> 1, from |-> 0, to |-> 0] >>
    /\ live = { Promise(r.id, r.title, r.content) : r \in posts }
    /\ gone = {}

\* ------------------------------------------------------------------ startup
\* DATABASE_URL = os.getenv(...); if not DATABASE_URL: raise RuntimeError
LoadConfig ==
    /\ phase = "import"
    /\ phase' = IF databaseUrl THEN "main" ELSE "aborted"
    /\ UNCHANGED <<databaseUrl, tableExists, printed, storage, now, workers, history>>

\* CREATE TABLE IF NOT EXISTS posts (...)
CreateTableIfNotExists == tableExists' = TRUE /\ UNCHANGED storage

\* init_db() succeeds, then app.run() starts serving
InitDbOk ==
    /\ phase = "main"
    /\ CreateTableIfNotExists
    /\ printed' = "initialized"
    /\ phase' = "serving"
    /\ UNCHANGED <<databaseUrl, now, workers, history>>

\* init_db() fails and the exception is printed but not re-raised
InitDbFailSwallowed ==
    /\ phase = "main"
    /\ printed' = "failed"
    /\ phase' = "serving"
    /\ UNCHANGED <<databaseUrl, tableExists, storage, now, workers, history>>

\* init_db() fails (connect, execute or commit raises): print and re-raise
InitDbFail ==
    /\ phase = "main"
    /\ printed' = "failed"
    /\ phase' = "aborted"
    /\ UNCHANGED <<databaseUrl, tableExists, storage, now, workers, history>>

\* ----------------------------------------------------------------- handlers
\* The handler returns `r`: the response is built and the worker holds it.
Return(w, r) ==
    /\ resp' = [resp EXCEPT ![w] = r]
    /\ pc' = [pc EXCEPT ![w] = "done"]

\* A request reaches an idle worker; the clock has moved on since the last one.
\* `limit` is the clock reading after which the run takes no more requests.
Arrive(w, op, id, body, limit) ==
    /\ phase = "serving"
    /\ pc[w] = "idle"
    /\ now < limit
    /\ now' = now + 1
    /\ req' = [req EXCEPT ![w] = Request(op, id, body, now + 1)]

\* conn = get_db_connection(): psycopg2.connect succeeds or raises
Connect(w) ==
    \/ /\ conn' = [conn EXCEPT ![w] = "open"]
       /\ pc' = [pc EXCEPT ![w] = "execute"]
       /\ UNCHANGED resp
    \/ /\ Return(w, Exception)
       /\ UNCHANGED conn

\* cur.close(); conn.close()
Close(w) == conn' = [conn EXCEPT ![w] = "closed"]

\* the INSERTs about to execute, each of which will draw an id
InsertsInFlight == Cardinality({ v \in Workers : pc[v] = "execute" /\ req[v].op = "create" })

\* create_post: get_json, validation, connect
CreateBegin(w, body, limit) ==
    /\ idSeq + InsertsInFlight <= MaxPosts
    /\ Arrive(w, "create", 0, body, limit)
    /\ \E data \in GetJson(body) :
          IF CreateValidate(data) = Proceed
          THEN Connect(w)
          ELSE Return(w, CreateValidate(data)) /\ UNCHANGED conn
    /\ UNCHANGED <<startup, storage, txn, history>>

\* update_post: get_json, validation, connect
UpdateBegin(w, id, body, limit) ==
    /\ Arrive(w, "update", id, body, limit)
    /\ \E data \in GetJson(body) :
          IF UpdateValidate(data) = Proceed
          THEN Connect(w)
          ELSE Return(w, UpdateValidate(data)) /\ UNCHANGED conn
    /\ UNCHANGED <<startup, storage, txn, history>>

\* delete_post: connect
DeleteBegin(w, id, limit) ==
    /\ Arrive(w, "delete", id, Plain("absent"), limit)
    /\ Connect(w)
    /\ UNCHANGED <<startup, storage, txn, history>>

\* get_posts: connect
ListBegin(w, limit) ==
    /\ Arrive(w, "list", 0, Plain("absent"), limit)
    /\ Connect(w)
    /\ UNCHANGED <<startup, storage, txn, history>>

\* ------------------------------------------------------------------ storage
\* statements that never wait for a row lock
NoRowLock(w, id) == FALSE

\* Another connection's open transaction holds the row lock on `id`: the
\* statement of `w` waits for that transaction to end.
RowLocked(w, id) ==
    \E v \in Workers \ {w} : txn[v].op \in {"update", "delete"} /\ txn[v].row.id = id

\* the WHERE clause forgotten
MatchingAll(id) == posts

\* the committed rows WHERE id = %s
Matching(id) == { r \in posts : r.id = id }

\* title TEXT: any length is stored
FitsAnyLength(title) == TRUE

\* title VARCHAR(200): a longer value is refused with an error
FitsColumn(title) == Len_(title) <= TitleMax

\* every order of the rows of S
Orders(S) ==
    { f \in [1..Cardinality(S) -> S] : \A i, j \in 1..Cardinality(S) : i # j => f[i] # f[j] }

\* ORDER BY created_at ASC
OrderByCreatedAtAsc(S) ==
    { f \in Orders(S) :
        \A i, j \in 1..Cardinality(S) : i < j => f[i].created_at <= f[j].created_at }

\* ORDER BY created_at DESC: every order of the rows the database may return
OrderByCreatedAtDesc(S) ==
    { f \in Orders(S) :
        \A i, j \in 1..Cardinality(S) : i < j => f[i].created_at >= f[j].created_at }

\* an id chosen as the lowest one no stored row uses
LowestFreeId == CHOOSE i \in 1..(Cardinality(posts) + 1) : i \notin { r.id : r \in posts }

\* id SERIAL: nextval('posts_id_seq'), the default of posts.id
NextVal == idSeq

\* The except clause returns without cur.close() / conn.close(): the
\* connection stays open, unless the interpreter happens to reclaim the
\* handler's locals (and with them the connection object) as it returns.
Abandon(w) == \E c \in {"open", "closed"} : conn' = [conn EXCEPT ![w] = c]

\* cur.execute raises (the connection dropped, the statement was refused):
\* the handler's except clause answers 500.
ExecuteRaises(w) ==
    /\ Return(w, Exception)
    /\ Abandon(w)
    /\ UNCHANGED <<txn, storage, history>>

\* INSERT INTO posts (title, content) VALUES (%s, %s) RETURNING *; fetchone()
CreateExecute(w) ==
    /\ pc[w] = "execute" /\ req[w].op = "create"
    /\ \/ /\ txn' = [txn EXCEPT ![w] = Txn("insert", Row(NextVal, Title(w), Content(w), now))]
          /\ idSeq' = NextVal + 1
          /\ pc' = [pc EXCEPT ![w] = "commit"]
          /\ UNCHANGED <<posts, conn, resp, history>>
       \/ ExecuteRaises(w)
    /\ UNCHANGED <<startup, now, req>>

\* UPDATE posts SET title = %s, content = %s WHERE id = %s RETURNING *; fetchone()
UpdateExecute(w) ==
    /\ pc[w] = "execute" /\ req[w].op = "update"
    /\ \/ /\ ~FitsColumn(Title(w))
          /\ ExecuteRaises(w)
       \/ /\ FitsColumn(Title(w))
          /\ ~RowLocked(w, req[w].id)
          /\ \/ /\ Matching(req[w].id) = {}
                /\ Close(w)
                /\ Return(w, ErrorResp(404, "Post not found"))
                /\ UNCHANGED <<txn, storage, history>>
             \/ /\ \E r \in Matching(req[w].id) :
                      txn' = [txn EXCEPT ![w] =
                                Txn("update", [r EXCEPT !.title = Title(w), !.content = Content(w)])]
                /\ pc' = [pc EXCEPT ![w] = "commit"]
                /\ UNCHANGED <<conn, resp, storage, history>>
       \/ ExecuteRaises(w)
    /\ UNCHANGED <<startup, now, req>>

\* DELETE FROM posts WHERE id = %s RETURNING id; fetchone()
DeleteExecute(w) ==
    /\ pc[w] = "execute" /\ req[w].op = "delete"
    /\ \/ /\ ~RowLocked(w, req[w].id)
          /\ \/ /\ Matching(req[w].id) = {}
                /\ Close(w)
                /\ Return(w, ErrorResp(404, "Post not found"))
                /\ UNCHANGED <<txn, storage, history>>
             \/ /\ \E r \in Matching(req[w].id) : txn' = [txn EXCEPT ![w] = Txn("delete", r)]
                /\ pc' = [pc EXCEPT ![w] = "commit"]
                /\ UNCHANGED <<conn, resp, storage, history>>
       \/ ExecuteRaises(w)
    /\ UNCHANGED <<startup, now, req>>

\* SELECT * FROM posts ORDER BY created_at DESC; fetchall(); close; 200
ListExecute(w) ==
    /\ pc[w] = "execute" /\ req[w].op = "list"
    /\ \/ /\ \E rows \in OrderByCreatedAtDesc(posts) : Return(w, Resp(200, "", rows))
          /\ Close(w)
          /\ UNCHANGED <<txn, storage, history>>
       \/ ExecuteRaises(w)
    /\ UNCHANGED <<startup, now, req>>

\* the table once the transaction of `t` is committed
Apply(t) ==
    CASE t.op = "insert" -> posts \cup {t.row}
      [] t.op = "update" -> { r \in posts : r.id # t.row.id } \cup {t.row}
      [] t.op = "delete" -> { r \in posts : r.id # t.row.id }
      [] OTHER           -> posts

\* conn.commit() raises: the server rolls the transaction back and releases
\* its row lock, the except clause answers 500.
CommitRaises(w) ==
    /\ txn' = [txn EXCEPT ![w] = NoTxn]
    /\ Return(w, Exception)
    /\ Abandon(w)
    /\ UNCHANGED <<storage, history>>

\* conn.commit(); cur.close(); conn.close(); return jsonify(new_post), 201
CreateCommit(w) ==
    /\ pc[w] = "commit" /\ req[w].op = "create"
    /\ \/ /\ posts' = Apply(txn[w])
          /\ txn' = [txn EXCEPT ![w] = NoTxn]
          /\ Close(w)
          /\ Return(w, Resp(201, "", <<txn[w].row>>))
          /\ createdLog' = Append(createdLog,
                                  [id |-> txn[w].row.id, from |-> req[w].at, to |-> now])
          /\ live' = live \cup { Promise(txn[w].row.id, Title(w), Content(w)) }
          /\ UNCHANGED <<idSeq, gone>>
       \/ CommitRaises(w)
    /\ UNCHANGED <<startup, now, req>>

\* conn.commit(); cur.close(); conn.close(); return jsonify(updated_post), 200
UpdateCommit(w) ==
    /\ pc[w] = "commit" /\ req[w].op = "update"
    /\ \/ /\ posts' = Apply(txn[w])
          /\ txn' = [txn EXCEPT ![w] = NoTxn]
          /\ Close(w)
          /\ Return(w, Resp(200, "", <<txn[w].row>>))
          /\ live' = { p \in live : p.id # req[w].id }
                       \cup { Promise(req[w].id, Title(w), Content(w)) }
          /\ UNCHANGED <<idSeq, createdLog, gone>>
       \/ CommitRaises(w)
    /\ UNCHANGED <<startup, now, req>>

\* conn.commit(); cur.close(); conn.close(); return {"message": ...}, 200
DeleteCommit(w) ==
    /\ pc[w] = "commit" /\ req[w].op = "delete"
    /\ \/ /\ posts' = Apply(txn[w])
          /\ txn' = [txn EXCEPT ![w] = NoTxn]
          /\ Close(w)
          /\ Return(w, Resp(200, "Post deleted successfully", <<>>))
          /\ live' = { p \in live : p.id # req[w].id }
          /\ gone' = gone \cup { [id |-> req[w].id, at |-> now] }
          /\ UNCHANGED <<idSeq, createdLog>>
       \/ CommitRaises(w)
    /\ UNCHANGED <<startup, now, req>>

\* The response leaves the worker, which is free for the next request.  A
\* connection the handler did not close stays open on the server's side; the
\* worker no longer holds it.
Respond(w) ==
    /\ pc[w] = "done"
    /\ pc' = [pc EXCEPT ![w] = "idle"]
    /\ req' = [req EXCEPT ![w] = NoReq]
    /\ resp' = [resp EXCEPT ![w] = NoResp]
    /\ conn' = [conn EXCEPT ![w] = "none"]
    /\ UNCHANGED <<startup, storage, now, txn, history>>

\* a request arrives at worker `w`, its body one of `bodies`
Begin(w, bodies, limit) ==
    \/ \E body \in bodies : CreateBegin(w, body, limit)
    \/ \E id \in Ids, body \in bodies : UpdateBegin(w, id, body, limit)
    \/ \E id \in Ids : DeleteBegin(w, id, limit)
    \/ ListBegin(w, limit)

\* worker `w` takes the next step of the request it is serving
Step(w) ==
    \/ CreateExecute(w)
    \/ UpdateExecute(w)
    \/ DeleteExecute(w)
    \/ ListExecute(w)
    \/ CreateCommit(w)
    \/ UpdateCommit(w)
    \/ DeleteCommit(w)
    \/ Respond(w)

Startup == LoadConfig \/ InitDbOk \/ InitDbFail

\* Requests served one at a time, with every kind of body.
Next ==
    \/ Startup
    \/ Begin("w1", Bodies, MaxNow)
    \/ Step("w1")

Spec == Init /\ [][Next]_vars

\* Requests served by both workers at once, with two bodies that pass validation.
ConcNext ==
    \/ Startup
    \/ \E w \in Workers :
          \/ Begin(w, ConcBodies, MaxConcNow)
          \/ Step(w)

ConcSpec == Init /\ [][ConcNext]_vars

\* =============================================================== properties
IdsOf(rows) == { r.id : r \in rows }
Answered == { w \in Workers : pc[w] = "done" }

\* ----------------------------------------------------------------------- C1
\* C1: every row persisted in the posts table has a title that is non-empty
\* after trimming and at most 200 characters long, and a content that is
\* non-empty after trimming, whatever requests succeeded or failed before.
PersistedRowsValid ==
    \A r \in posts :
        /\ Strip(r.title).n > 0
        /\ Len_(r.title) <= TitleMax
        /\ Strip(r.content).n > 0

\* An update carrying a 201-character title was answered and a row is stored.
PersistedRowsValidWitness ==
    \E w \in Answered :
        /\ req[w].op = "update"
        /\ Len_(Title(w)) > TitleMax /\ Content(w).n > 0
        /\ req[w].id \in IdsOf(posts)
        /\ resp[w].status = 500

\* ----------------------------------------------------------------------- C2
\* the validation errors C2 lists
Unparseable(body) == body.kind \in {"malformed", "absent"}
FieldsGiven(body) ==
    body.kind = "dict" /\ GetField(body.title).kind = "str" /\ GetField(body.content).kind = "str"
FieldEmpty(body) ==
    FieldsGiven(body) /\ (Strip(GetField(body.title)).n = 0 \/ Strip(GetField(body.content)).n = 0)
TitleTooLong(body) ==
    FieldsGiven(body) /\ Len_(Strip(GetField(body.title))) > TitleMax
CarriesValidationError(body) == Unparseable(body) \/ FieldEmpty(body) \/ TitleTooLong(body)

\* C2: every create or update request that carries a validation error
\* (unparseable body, empty title or content after trimming, trimmed title
\* over 200 characters) is answered 400 without a connection ever being
\* opened for it.
ValidationErrorsRejectedBeforeStorage ==
    \A w \in Answered :
        (req[w].op \in {"create", "update"} /\ CarriesValidationError(req[w].body))
            => (resp[w].status = 400 /\ conn[w] = "none")

\* ----------------------------------------------------------------------- C3
\* C3: a create request is answered by the first check that applies:
\* unparseable body -> 400 "No data provided"; empty title or content ->
\* 400 "Title and content are required"; title over 200 characters ->
\* 400 "Title must be <= 200 characters"; otherwise, absent a storage error,
\* 201 with the inserted row holding the trimmed title and content.
CreateOutcomeInOrder ==
    \A w \in Answered :
        (req[w].op = "create" /\ (Unparseable(req[w].body) \/ FieldsGiven(req[w].body))) =>
            IF Unparseable(req[w].body)
            THEN resp[w] = ErrorResp(400, "No data provided")
            ELSE IF FieldEmpty(req[w].body)
            THEN resp[w] = ErrorResp(400, "Title and content are required")
            ELSE IF TitleTooLong(req[w].body)
            THEN resp[w] = ErrorResp(400, "Title must be <= 200 characters")
            ELSE \/ resp[w] = Exception
                 \/ /\ resp[w].status = 201
                    /\ Len(resp[w].rows) = 1
                    /\ resp[w].rows[1].title = Strip(req[w].body.title)
                    /\ resp[w].rows[1].content = Strip(req[w].body.content)
                    /\ resp[w].rows[1].id > 0
                    /\ resp[w].rows[1] \in posts

\* ----------------------------------------------------------------------- C4
\* C4: every request that opened a storage connection has closed it by the
\* time its response is built, on the success, 404 and 500 paths alike.
ConnectionClosedOnResponse ==
    \A w \in Answered : conn[w] # "none" => conn[w] = "closed"

\* ----------------------------------------------------------------------- C5
\* the fields an update request submits, trimmed
Submitted(w, old) ==
    [old EXCEPT !.title = Strip(GetField(req[w].body.title)),
                !.content = Strip(GetField(req[w].body.content))]

UpdateAnswers(w, status) ==
    /\ req[w].op = "update" /\ pc[w] \in {"execute", "commit"}
    /\ pc'[w] = "done" /\ resp'[w].status = status

\* C5: an update answered 200 replaced the title and content of the row with
\* the request's id by the trimmed submitted values, kept that row's id and
\* created_at, returned the row and changed no other row; an update with a
\* valid body whose id matches no row is answered 404 (or 500 on a storage
\* error) and the table is unchanged.
UpdateReplacesOnlyTitleAndContent ==
    [][\A w \in Workers :
        /\ UpdateAnswers(w, 200) =>
              \E old \in posts :
                  /\ old.id = req[w].id
                  /\ posts' = (posts \ {old}) \cup {Submitted(w, old)}
                  /\ resp'[w] = Resp(200, "", <<Submitted(w, old)>>)
        /\ UpdateAnswers(w, 404) =>
              /\ resp'[w] = ErrorResp(404, "Post not found")
              /\ req[w].id \notin IdsOf(posts)
              /\ posts' = posts
        /\ ( /\ req[w].op = "update" /\ pc[w] = "execute" /\ pc'[w] # "execute"
             /\ req[w].body \in ValidBodies
             /\ req[w].id \notin IdsOf(posts) ) =>
              /\ pc'[w] = "done"
              /\ resp'[w] \in {ErrorResp(404, "Post not found"), Exception}
              /\ posts' = posts
      ]_vars

\* An update was answered 200 while another row was stored, and it changed
\* the title of its row.
UpdateReplacesWitness ==
    \E w \in Answered :
        /\ req[w].op = "update" /\ resp[w].status = 200
        /\ Cardinality(posts) = 2
        /\ resp[w].rows[1] \in posts
        /\ resp[w].rows[1].id = 1
        /\ resp[w].rows[1].title # OldRow.title
        /\ resp[w].rows[1].created_at = OldRow.created_at

\* ----------------------------------------------------------------------- C6
DeleteAnswers(w, status) ==
    /\ req[w].op = "delete" /\ pc[w] \in {"execute", "commit"}
    /\ pc'[w] = "done" /\ resp'[w].status = status

\* C6: a delete of a persisted id is answered 200 "Post deleted
\* successfully" (absent a storage error) and removes exactly that row; a
\* delete of an id that an earlier delete removed is answered 404 "Post not
\* found" (absent a storage error) and changes nothing, whatever requests were
\* served in between.
DeleteOnceThenNotFound ==
    [][\A w \in Workers :
        /\ DeleteAnswers(w, 200) =>
              \E old \in posts :
                  /\ old.id = req[w].id
                  /\ posts' = posts \ {old}
                  /\ resp'[w] = Resp(200, "Post deleted successfully", <<>>)
        /\ ( /\ req[w].op = "delete" /\ pc[w] = "execute" /\ pc'[w] # "execute"
             /\ req[w].id \in IdsOf(posts) ) =>
              /\ posts' = posts
              /\ \/ pc'[w] = "commit"
                 \/ pc'[w] = "done" /\ resp'[w] = Exception
        /\ ( /\ req[w].op = "delete" /\ pc[w] = "execute" /\ pc'[w] # "execute"
             /\ req[w].id \in IdsOf(gone) ) =>
              /\ pc'[w] = "done"
              /\ resp'[w] \in {ErrorResp(404, "Post not found"), Exception}
              /\ posts' = posts
      ]_vars

\* A delete of an id removed earlier was answered 404 after another request
\* had created a post in between.
DeleteOnceWitness ==
    \E w \in Answered :
        /\ req[w].op = "delete" /\ resp[w].status = 404
        /\ \E g \in gone : g.id = req[w].id /\ g.at < req[w].at - 1
        /\ posts # {}

\* ----------------------------------------------------------------------- C7
ListAnswers(w) ==
    /\ req[w].op = "list" /\ pc[w] = "execute"
    /\ pc'[w] = "done" /\ resp'[w].status = 200

Position(rows, id) == CHOOSE i \in 1..Len(rows) : rows[i].id = id

\* C7: the table holds exactly what the 201 and 200 responses promised (each
\* created post not deleted since, with the title and content of its creation
\* or latest successful update), and a list answered 200 returns exactly the
\* persisted rows, each once, newest created_at first, so that a post created
\* after another post's create was answered is listed before it.
ListReturnsPersistedNewestFirst ==
    /\ []({ Promise(r.id, r.title, r.content) : r \in posts } = live)
    /\ [][\A w \in Workers : ListAnswers(w) =>
            LET rows == resp'[w].rows IN
            /\ Len(rows) = Cardinality(posts)
            /\ { rows[i] : i \in 1..Len(rows) } = posts
            /\ \A i, j \in 1..Len(rows) : i < j => rows[i].created_at >= rows[j].created_at
            /\ \A i, j \in 1..Len(createdLog) :
                  ( /\ createdLog[i].to < createdLog[j].from
                    /\ {createdLog[i].id, createdLog[j].id} \subseteq IdsOf(posts) )
                  => Position(rows, createdLog[j].id) < Position(rows, createdLog[i].id)
      ]_vars

\* A list returned two posts created one after the other by this service, the
\* later one first, the earlier one carrying the title of a later update.
ListWitness ==
    \E w \in Answered :
        /\ req[w].op = "list" /\ resp[w].status = 200
        /\ Len(resp[w].rows) = 2
        /\ Len(createdLog) = 2 /\ createdLog[1].from > 0
        /\ resp[w].rows[1].id = createdLog[2].id
        /\ resp[w].rows[2].id = createdLog[1].id
        /\ resp[w].rows[2].title.n = TitleMax
        /\ resp[w].rows[1].title.n = 1

\* ----------------------------------------------------------------------- C8
\* C8: the id a successful create returns differs from the id of every post
\* created before it, deleted ones included, and an update never changes which
\* ids are stored.
IdsUniqueNeverReused ==
    /\ [](\A i, j \in 1..Len(createdLog) : i # j => createdLog[i].id # createdLog[j].id)
    /\ [](\A r1, r2 \in posts : r1.id = r2.id => r1 = r2)
    /\ [][\A w \in Workers : UpdateAnswers(w, 200) => IdsOf(posts') = IdsOf(posts)]_vars

\* A create was answered 201 after the post created before it had been deleted.
IdsUniqueWitness ==
    \E w \in Answered :
        /\ req[w].op = "create" /\ resp[w].status = 201
        /\ Len(createdLog) = 2
        /\ createdLog[1].id \in IdsOf(gone)

\* ----------------------------------------------------------------------- C9
Served == \E w \in Workers : pc[w] # "idle"

\* C9: a request is served only after startup succeeded (DATABASE_URL set,
\* init_db returned, the table exists); a missing DATABASE_URL aborts before
\* init_db; a failing init_db prints the failure and aborts; init_db never
\* changes a stored row or the id sequence.
NoRequestBeforeStartup ==
    /\ []((Served \/ now > 1) => (phase = "serving" /\ databaseUrl /\ tableExists))
    /\ [](phase = "serving" => (databaseUrl /\ tableExists /\ printed = "initialized"))
    /\ [](~databaseUrl => (phase \in {"import", "aborted"} /\ printed = ""))
    /\ []((phase = "aborted" /\ databaseUrl) => printed = "failed")
    /\ [][(phase \in {"import", "main"}) => (posts' = posts /\ idSeq' = idSeq)]_vars
    /\ [][(phase = "aborted") => (phase' = "aborted")]_vars

\* A request is being served from a table that held a row before this start.
StartupWitness ==
    /\ Served
    /\ OldRow \in posts
    /\ printed = "initialized"

\* ---------------------------------------------------------------------- C10
\* the id was stored when the request of `w` arrived
StoredAtArrival(w) ==
    /\ \E i \in 1..Len(createdLog) : createdLog[i].id = req[w].id /\ createdLog[i].to < req[w].at
    /\ ~ \E g \in gone : g.id = req[w].id /\ g.at < req[w].at

\* C10: of two concurrent deletes of one stored id that meet no storage
\* error, exactly one is answered 200 and the other 404; an update is answered
\* 200 only while its row is stored, never after a concurrent delete of that
\* row committed; and the table always equals the responses replayed in
\* commit order.
ConcurrentWritesSerialize ==
    /\ [](\A v, w \in Answered :
            ( /\ v # w
              /\ req[v].op = "delete" /\ req[w].op = "delete" /\ req[v].id = req[w].id
              /\ StoredAtArrival(v) /\ StoredAtArrival(w)
              /\ resp[v].status # 500 /\ resp[w].status # 500 )
            => {resp[v].status, resp[w].status} = {200, 404})
    /\ [](\A r1, r2 \in posts : r1.id = r2.id => r1 = r2)
    /\ []({ Promise(r.id, r.title, r.content) : r \in posts } = live)
    /\ [][\A w \in Workers :
            /\ UpdateAnswers(w, 200) =>
                  /\ req[w].id \in IdsOf(posts)
                  /\ req[w].id \notin IdsOf(gone)
                  /\ resp'[w].rows[1] \in posts'
            /\ DeleteAnswers(w, 200) =>
                  /\ req[w].id \in IdsOf(posts)
                  /\ req[w].id \notin IdsOf(posts')
      ]_vars

\* Two concurrent deletes of the same stored row were answered 200 and 404.
ConcurrentDeletesWitness ==
    \E v, w \in Answered :
        /\ req[v].op = "delete" /\ req[w].op = "delete" /\ req[v].id = req[w].id
        /\ StoredAtArrival(v) /\ StoredAtArrival(w)
        /\ resp[v].status = 200 /\ resp[w].status = 404
====
